---- MODULE Spec2Model ----
(***************************************************************************)
(* A model of src/mentalbot.py: the MentalBot session store, the two       *)
(* upstream adapters (Watson Assistant classification, watsonx generation  *)
(* with its 401 token refresh) and the chat orchestrator.                  *)
(*                                                                         *)
(* Conventions.                                                            *)
(*  - A text is a sequence of tokens; the token " " is whitespace, so that *)
(*    str.strip() is computed and not assumed.                             *)
(*  - Time is counted in ticks of 15 minutes; session_timeout is 2 ticks.  *)
(*  - Python's None is encoded inside the record that would hold the       *)
(*    value (output = "None" for a classification result, none = TRUE for  *)
(*    a generation result), so that every variable keeps one shape.        *)
(*  - One invocation of chat is a frame with a program counter; its steps  *)
(*    are the session resolve, each history append and each upstream call. *)
(***************************************************************************)
EXTENDS Integers, Sequences, FiniteSets, TLC

(* ------------------------------ bounds --------------------------------- *)

\* Total number of chat invocations started in one behaviour.
MaxCalls == 2

\* Last tick the clock reaches.
MaxTime == 3

\* Number of invocation frames (threads that may run chat).
NumProcs == 2

\* Total number of direct session resolves in one behaviour of the store alone.
MaxResolves == 3

(* -------------------------- program constants -------------------------- *)

\* timedelta(minutes=30), in ticks of 15 minutes
session_timeout == 2

\* the intent name searched for in str(assistant_response)
Marker == "action_3200_intent_45093-2"

\* the fixed apology
fallback == <<"I apologize, but I'm having trouble generating a response.">>

(* ------------------------------ inputs --------------------------------- *)

Procs == 1..NumProcs

\* The thread that runs chat when invocations are sequential.
Main == CHOOSE p \in Procs : \A q \in Procs : p <= q

\* Python None, as a session_id argument
None == "None"

\* uuid4() values, in the order the process draws them
UuidPool == <<"u1", "u2", "u3", "u4", "u5", "u6", "u7", "u8">>

\* Texts the caller sends. chat never looks into user_input (it only stores it
\* and sends it on), so the k-th invocation sends the k-th text: every call's
\* text differs from every other call's, and a misplaced turn shows.
UserTexts == <<<<"a">>, <<"b">>, <<"c">>, <<"d">>, <<"e">>, <<"f">>>>

\* Direct replies of the classification service.
AssistantTexts == {<<"c">>}

\* generated_text values of the generation service, before strip()
GenTexts == {<< >>, <<" ">>, <<"x">>, <<" ", "x", " ">>}

\* Session ids a caller may pass that the store never issued ("" is falsy).
ForeignIds == {None, "", "bogus"}

(* --------------------------- pure functions ---------------------------- *)

IsSpace(tok) == tok = " "

RECURSIVE LStrip(_)
LStrip(s) == IF s # << >> /\ IsSpace(Head(s)) THEN LStrip(Tail(s)) ELSE s

RECURSIVE RStrip(_)
RStrip(s) ==
    IF s # << >> /\ IsSpace(s[Len(s)]) THEN RStrip(SubSeq(s, 1, Len(s) - 1)) ELSE s

\* str.strip()
Strip(s) == RStrip(LStrip(s))

\* Truthiness of a Python str / None used as a session id
TruthyId(sid) == sid \notin {None, ""}

Turn(role, content) == [role |-> role, content |-> content]

(* ------------------------- upstream responses -------------------------- *)

\* Shapes of the JSON body of a classification answer, as far as chat looks:
\*   "empty_dict"    {}                                   (falsy)
\*   "absent"        a non-empty object without 'output'
\*   "no_generic"    'output' without 'generic'
\*   "empty_generic" 'output': {'generic': []}
\*   "text"          'output': {'generic': [{'text': t}]}
\* marker says whether str(body) contains the marker intent.
AssistantBody(m, o, t) == [marker |-> m, output |-> o, text |-> t]

\* None as the value of assistant_response
NoneBody == AssistantBody(FALSE, "None", << >>)

AssistantBodies ==
    {AssistantBody(FALSE, o, << >>) : o \in {"empty_dict", "absent", "no_generic", "empty_generic"}}
        \cup {AssistantBody(TRUE, "absent", << >>)}
        \cup {AssistantBody(m, "text", t) : m \in BOOLEAN, t \in AssistantTexts}

\* What requests.post can give: an exception, or a response with a status.
\* kind "badjson" is a 200 whose body response.json() cannot decode.
AssistantOutcomes ==
    {[kind |-> "exception", status |-> 0, body |-> NoneBody],
     [kind |-> "http", status |-> 500, body |-> NoneBody],
     [kind |-> "badjson", status |-> 200, body |-> NoneBody]}
        \cup {[kind |-> "http", status |-> 200, body |-> b] : b \in AssistantBodies}

\* A generation answer: wellformed says whether ['results'][0]['generated_text'] exists.
GenOutcome(k, st, wf, t) == [kind |-> k, status |-> st, wellformed |-> wf, text |-> t]

NoOutcome == GenOutcome("none", 0, FALSE, << >>)

GenOutcomes ==
    {GenOutcome("exception", 0, FALSE, << >>),
     GenOutcome("http", 401, FALSE, << >>),
     GenOutcome("http", 500, FALSE, << >>),
     GenOutcome("http", 200, FALSE, << >>)}
        \cup {GenOutcome("http", 200, TRUE, t) : t \in GenTexts}

\* An identity-token answer: wellformed says whether ['access_token'] exists.
IamOutcomes ==
    {[kind |-> "exception", status |-> 0, wellformed |-> FALSE],
     [kind |-> "http", status |-> 400, wellformed |-> FALSE],
     [kind |-> "http", status |-> 200, wellformed |-> FALSE],
     [kind |-> "http", status |-> 200, wellformed |-> TRUE]}

\* No token exchange made yet
NoIam == [kind |-> "none", status |-> 0, wellformed |-> FALSE]

\* A str-or-None value
NoText == [none |-> TRUE, text |-> << >>]
SomeText(t) == [none |-> FALSE, text |-> t]

(* ------------------------------- state --------------------------------- *)

VARIABLES
    now,            \* datetime.now(), in ticks
    sessions,       \* self.sessions: session id -> session
    uuid_count,     \* number of uuid4() values drawn
    watsonx_token,  \* self.watsonx_token: the number of the token held
    calls,          \* chat invocations started
    frame           \* per thread: the running (or last) chat invocation

vars == <<now, sessions, uuid_count, watsonx_token, calls, frame>>

NoResult == [kind |-> "none", response |-> << >>, session_id |-> None, source |-> "none"]

\* What chat returns
Result(resp, sid, src) ==
    [kind |-> "returned", response |-> resp, session_id |-> sid, source |-> src]

\* An exception leaving chat
Raised == [kind |-> "raised", response |-> << >>, session_id |-> None, source |-> "none"]

\* A thread that is not inside chat and has not called it yet.
\* The last line holds what the invocation found when it was entered (history
\* variables for the properties): the ids in the store, the resolved
\* session's history, whether the passed id named a live session, the token,
\* the time, and the number of calls chained on the returned session id.
\* resp1, resp2 and iam are the answers the invocation got, prompt_ctx the
\* "Previous Context" turns of its prompt, no its number among all invocations.
IdleFrame ==
    [pc |-> "idle", user_input |-> << >>, arg |-> None, session_id |-> None,
     assistant_response |-> NoneBody, model_response |-> NoText, result |-> NoResult,
     gen_calls |-> 0, gen_requests |-> 0, refreshes |-> 0,
     resp1 |-> NoOutcome, resp2 |-> NoOutcome, iam |-> NoIam, prompt_ctx |-> << >>,
     no |-> 0, store0 |-> {}, hist0 |-> << >>, live0 |-> FALSE, token0 |-> 0, t0 |-> 0, chain |-> 0]

\* The state after MentalBot.__init__ has returned (the first token exchange
\* succeeded: token number 0).
Init ==
    /\ now = 0
    /\ sessions = [id \in {} |-> 0]
    /\ uuid_count = 0
    /\ watsonx_token = 0
    /\ calls = 0
    /\ frame = [p \in Procs |-> IdleFrame]

(* ---------------------------- session store ---------------------------- *)

\* Mutant: uuid4 hands out the same id again
Mutant_uuid4_Repeats(cnt) == UuidPool[1]

\* str(uuid.uuid4()): a value never drawn before
uuid4(cnt) == UuidPool[cnt + 1]

NewSession(t) ==
    [created_at |-> t, last_accessed |-> t, context |-> {}, conversation_history |-> << >>]

\* _create_session: the store after it and the id it returns
_create_session(store, cnt, t) ==
    LET session_id == uuid4(cnt)
    IN [sessions |-> [id \in DOMAIN store \cup {session_id} |->
                         IF id = session_id THEN NewSession(t) ELSE store[id]],
        session_id |-> session_id,
        uuid_count |-> cnt + 1]

\* Mutant: a session is still live exactly at the timeout
Mutant_IsLive_NotStrict(store, session_id, t) ==
    /\ TruthyId(session_id)
    /\ session_id \in DOMAIN store
    /\ t - store[session_id].last_accessed <= session_timeout

\* The test of _get_or_create_session: known id, last access less than the timeout ago
IsLive(store, session_id, t) ==
    /\ TruthyId(session_id)
    /\ session_id \in DOMAIN store
    /\ t - store[session_id].last_accessed < session_timeout

\* Mutant: a session found expired is deleted before its replacement is made
Mutant_get_or_create_session_Evicts(store, cnt, session_id, t) ==
    IF IsLive(store, session_id, t)
    THEN [sessions |-> [store EXCEPT ![session_id].last_accessed = t],
          session_id |-> session_id,
          uuid_count |-> cnt]
    ELSE _create_session([id \in DOMAIN store \ {session_id} |-> store[id]], cnt, t)

\* Mutant: the live branch forgets session['last_accessed'] = datetime.now()
Mutant_get_or_create_session_NoRefresh(store, cnt, session_id, t) ==
    IF IsLive(store, session_id, t)
    THEN [sessions |-> store, session_id |-> session_id, uuid_count |-> cnt]
    ELSE _create_session(store, cnt, t)

\* _get_or_create_session
_get_or_create_session(store, cnt, session_id, t) ==
    IF IsLive(store, session_id, t)
    THEN [sessions |-> [store EXCEPT ![session_id].last_accessed = t],
          session_id |-> session_id,
          uuid_count |-> cnt]
    ELSE _create_session(store, cnt, t)

\* session['conversation_history'].append(turn)
AppendTurn(store, session_id, turn) ==
    [store EXCEPT ![session_id].conversation_history = Append(@, turn)]

(* --------------------------- intent adapter ---------------------------- *)

\* get_assistant_intent: the JSON body on a 200, None on any other status and
\* on any exception (requests.post failing, response.json() failing)
get_assistant_intent(outcome) ==
    IF outcome.kind = "http" /\ outcome.status = 200 THEN outcome.body ELSE NoneBody

\* bool(assistant_response): None and {} are falsy
Truthy(assistant_response) == assistant_response.output \notin {"None", "empty_dict"}

\* "action_3200_intent_45093-2" in str(assistant_response)
HasMarker(assistant_response) == assistant_response.marker

\* Mutant: the model is always asked
Mutant_needs_model_response_Always(assistant_response) == TRUE

\* needs_model_response as chat computes it
needs_model_response(assistant_response) ==
    IF Truthy(assistant_response) THEN HasMarker(assistant_response) ELSE TRUE

\* 'output' in assistant_response
HasOutput(assistant_response) ==
    assistant_response.output \in {"no_generic", "empty_generic", "text"}

\* assistant_response['output']['generic'][0]['text'] raises KeyError / IndexError
ExtractRaises(assistant_response) == assistant_response.output # "text"

\* Mutant: the elif is tested first, so a direct text wins over the marker
Mutant_Route_AssistantFirst(assistant_response) ==
    IF Truthy(assistant_response) /\ HasOutput(assistant_response) THEN "use_assistant"
    ELSE IF needs_model_response(assistant_response) THEN "gen_req1"
    ELSE "fallback"

\* Where chat goes after the classification call
Route(assistant_response) ==
    IF needs_model_response(assistant_response) THEN "gen_req1"
    ELSE IF Truthy(assistant_response) /\ HasOutput(assistant_response) THEN "use_assistant"
    ELSE "fallback"

(* -------------------------- generation adapter ------------------------- *)

\* The value a generation answer yields inside the try block:
\* the stripped text on a well-formed 200, None on everything else
\* (a malformed 200 raises inside the try and the except returns None).
GeneratedText(outcome) ==
    IF outcome.kind = "http" /\ outcome.status = 200 /\ outcome.wellformed
    THEN SomeText(Strip(outcome.text))
    ELSE NoText

\* Mutant: every status but 200 refreshes and retries
Mutant_NeedsRefresh_AnyFailure(outcome) == outcome.kind = "http" /\ outcome.status # 200

\* The first request answered 401: the branch that refreshes and retries
NeedsRefresh(outcome) == outcome.kind = "http" /\ outcome.status = 401

\* _get_iam_token returns a token (otherwise it raises)
IamOk(outcome) == outcome.kind = "http" /\ outcome.status = 200 /\ outcome.wellformed

\* Mutant: the test is "model_response is not None"
Mutant_TruthyText_NotNone(model_response) == ~model_response.none

\* conversation_history[-2:], the turns rendered into the prompt
PromptContext(conversation_history) ==
    SubSeq(conversation_history,
           IF Len(conversation_history) > 2 THEN Len(conversation_history) - 1 ELSE 1,
           Len(conversation_history))

\* bool(model_response): None and "" are falsy
TruthyText(model_response) == ~model_response.none /\ model_response.text # << >>

(* ------------------------------ actions -------------------------------- *)

InChat(p) == frame[p].pc \notin {"idle", "returned", "raised", "resolved"}

\* The spec's definition of a live session, for the history variables
LiveAt(store, session_id, t) ==
    session_id \in DOMAIN store /\ t - store[session_id].last_accessed < session_timeout

\* The caller passes the id the previous call returned, less than the timeout
\* after that call.
Chained(p, session_id) ==
    /\ frame[p].result.kind = "returned"
    /\ session_id = frame[p].result.session_id
    /\ now - frame[p].t0 < session_timeout

\* Position of a call in a chain that began with a call passing no known id.
ChainAt(p, session_id) ==
    IF session_id \notin DOMAIN sessions THEN 1
    ELSE IF Chained(p, session_id) /\ frame[p].chain > 0 THEN frame[p].chain + 1
    ELSE 0

\* chat is entered: _get_or_create_session(session_id); session = self.sessions[...]
Chat(p, user_input, session_id) ==
    /\ ~InChat(p)
    /\ calls < MaxCalls
    /\ LET r == _get_or_create_session(sessions, uuid_count, session_id, now)
       IN /\ sessions' = r.sessions
          /\ uuid_count' = r.uuid_count
          /\ frame' = [frame EXCEPT ![p] =
                [IdleFrame EXCEPT !.pc = "append_user",
                                  !.user_input = user_input,
                                  !.arg = session_id,
                                  !.no = calls + 1,
                                  !.session_id = r.session_id,
                                  !.store0 = DOMAIN sessions,
                                  !.hist0 = r.sessions[r.session_id].conversation_history,
                                  !.live0 = LiveAt(sessions, session_id, now),
                                  !.token0 = watsonx_token,
                                  !.t0 = now,
                                  !.chain = ChainAt(p, session_id)]]
    /\ calls' = calls + 1
    /\ UNCHANGED <<now, watsonx_token>>

\* _get_or_create_session called on its own (the session store without chat)
Resolve(p, session_id) ==
    /\ ~InChat(p)
    /\ calls < MaxResolves
    /\ LET r == _get_or_create_session(sessions, uuid_count, session_id, now)
       IN /\ sessions' = r.sessions
          /\ uuid_count' = r.uuid_count
          /\ frame' = [frame EXCEPT ![p] =
                [IdleFrame EXCEPT !.pc = "resolved",
                                  !.arg = session_id,
                                  !.no = calls + 1,
                                  !.session_id = r.session_id,
                                  !.store0 = DOMAIN sessions,
                                  !.hist0 = r.sessions[r.session_id].conversation_history,
                                  !.live0 = LiveAt(sessions, session_id, now),
                                  !.token0 = watsonx_token,
                                  !.t0 = now]]
    /\ calls' = calls + 1
    /\ UNCHANGED <<now, watsonx_token>>

\* session['conversation_history'].append({"role": "user", ...})
AppendUser(p) ==
    /\ frame[p].pc = "append_user"
    /\ sessions' = AppendTurn(sessions, frame[p].session_id, Turn("user", frame[p].user_input))
    /\ frame' = [frame EXCEPT ![p].pc = "classify"]
    /\ UNCHANGED <<now, uuid_count, watsonx_token, calls>>

\* assistant_response = self.get_assistant_intent(user_input), then the routing
Classify(p, outcome) ==
    /\ frame[p].pc = "classify"
    /\ LET assistant_response == get_assistant_intent(outcome)
       IN frame' = [frame EXCEPT ![p].assistant_response = assistant_response,
                                 ![p].pc = Route(assistant_response)]
    /\ UNCHANGED <<now, sessions, uuid_count, watsonx_token, calls>>

\* Mutant: the 2-turn window is cut out of the stored list itself
Mutant_ModelRequest_TruncatesHistory(p, outcome) ==
    /\ frame[p].pc = "gen_req1"
    /\ frame' = [frame EXCEPT ![p].resp1 = outcome,
                              ![p].prompt_ctx = PromptContext(
                                  sessions[frame[p].session_id].conversation_history),
                              ![p].gen_calls = @ + 1,
                              ![p].gen_requests = @ + 1,
                              ![p].model_response = GeneratedText(outcome),
                              ![p].pc = IF NeedsRefresh(outcome) THEN "gen_refresh" ELSE "gen_done"]
    /\ sessions' = [sessions EXCEPT ![frame[p].session_id].conversation_history =
                                        PromptContext(@)]
    /\ UNCHANGED <<now, uuid_count, watsonx_token, calls>>

\* get_model_response is entered: the first requests.post and the status test
ModelRequest(p, outcome) ==
    /\ frame[p].pc = "gen_req1"
    /\ frame' = [frame EXCEPT ![p].resp1 = outcome,
                              ![p].prompt_ctx = PromptContext(
                                  sessions[frame[p].session_id].conversation_history),
                              ![p].gen_calls = @ + 1,
                              ![p].gen_requests = @ + 1,
                              ![p].model_response = GeneratedText(outcome),
                              ![p].pc = IF NeedsRefresh(outcome) THEN "gen_refresh" ELSE "gen_done"]
    /\ UNCHANGED <<now, sessions, uuid_count, watsonx_token, calls>>

\* Mutant: the exception of a failed token exchange leaves chat
Mutant_RefreshToken_FailureEscapes(p, outcome) ==
    /\ frame[p].pc = "gen_refresh"
    /\ frame' = [frame EXCEPT ![p].refreshes = @ + 1,
                              ![p].iam = outcome,
                              ![p].pc = IF IamOk(outcome) THEN "gen_req2" ELSE "raised",
                              ![p].result = IF IamOk(outcome) THEN @ ELSE Raised]
    /\ watsonx_token' = IF IamOk(outcome) THEN watsonx_token + 1 ELSE watsonx_token
    /\ UNCHANGED <<now, sessions, uuid_count, calls>>

\* get_model_response on a 401: self.watsonx_token = self._get_iam_token()
RefreshToken(p, outcome) ==
    /\ frame[p].pc = "gen_refresh"
    /\ frame' = [frame EXCEPT ![p].refreshes = @ + 1,
                              ![p].iam = outcome,
                              ![p].pc = IF IamOk(outcome) THEN "gen_req2" ELSE "gen_done"]
    /\ watsonx_token' = IF IamOk(outcome) THEN watsonx_token + 1 ELSE watsonx_token
    /\ UNCHANGED <<now, sessions, uuid_count, calls>>

\* Mutant: a 401 on the re-issued request refreshes and retries again
Mutant_ModelRetry_Loops(p, outcome) ==
    /\ frame[p].pc = "gen_req2"
    /\ frame' = [frame EXCEPT ![p].resp2 = outcome,
                              ![p].gen_requests = @ + 1,
                              ![p].model_response = GeneratedText(outcome),
                              ![p].pc = IF NeedsRefresh(outcome) /\ frame[p].refreshes < 2
                                        THEN "gen_refresh" ELSE "gen_done"]
    /\ UNCHANGED <<now, sessions, uuid_count, watsonx_token, calls>>

\* get_model_response on a 401: the re-issued requests.post
ModelRetry(p, outcome) ==
    /\ frame[p].pc = "gen_req2"
    /\ frame' = [frame EXCEPT ![p].resp2 = outcome,
                              ![p].gen_requests = @ + 1,
                              ![p].model_response = GeneratedText(outcome),
                              ![p].pc = "gen_done"]
    /\ UNCHANGED <<now, sessions, uuid_count, watsonx_token, calls>>

\* The end of chat: append the assistant turn and return
Reply(p, text, source) ==
    /\ sessions' = AppendTurn(sessions, frame[p].session_id, Turn("assistant", text))
    /\ frame' = [frame EXCEPT ![p].pc = "returned",
                              ![p].result = Result(text, frame[p].session_id, source)]

\* Mutant: the fallback is returned without being appended to the history
Mutant_FinishModel_FallbackNotAppended(p) ==
    /\ frame[p].pc = "gen_done"
    /\ IF TruthyText(frame[p].model_response)
       THEN Reply(p, frame[p].model_response.text, "model")
       ELSE /\ frame' = [frame EXCEPT ![p].pc = "returned",
                                      ![p].result = Result(fallback, frame[p].session_id, "fallback")]
            /\ UNCHANGED sessions
    /\ UNCHANGED <<now, uuid_count, watsonx_token, calls>>

\* chat after get_model_response: the model's text if truthy, else the fallback
FinishModel(p) ==
    /\ frame[p].pc = "gen_done"
    /\ IF TruthyText(frame[p].model_response)
       THEN Reply(p, frame[p].model_response.text, "model")
       ELSE Reply(p, fallback, "fallback")
    /\ UNCHANGED <<now, uuid_count, watsonx_token, calls>>

\* Mutant: the elif branch tags its result with the model's source
Mutant_UseAssistant_WrongSource(p) ==
    /\ frame[p].pc = "use_assistant"
    /\ IF ExtractRaises(frame[p].assistant_response)
       THEN /\ frame' = [frame EXCEPT ![p].pc = "raised", ![p].result = Raised]
            /\ UNCHANGED sessions
       ELSE Reply(p, frame[p].assistant_response.text, "model")
    /\ UNCHANGED <<now, uuid_count, watsonx_token, calls>>

\* chat's elif branch: the classification's own text
UseAssistant(p) ==
    /\ frame[p].pc = "use_assistant"
    /\ IF ExtractRaises(frame[p].assistant_response)
       THEN /\ frame' = [frame EXCEPT ![p].pc = "raised", ![p].result = Raised]
            /\ UNCHANGED sessions
       ELSE Reply(p, frame[p].assistant_response.text, "assistant")
    /\ UNCHANGED <<now, uuid_count, watsonx_token, calls>>

\* chat's last block, reached without a generation call
Fallback(p) ==
    /\ frame[p].pc = "fallback"
    /\ Reply(p, fallback, "fallback")
    /\ UNCHANGED <<now, uuid_count, watsonx_token, calls>>

\* Time passes.
Tick ==
    /\ now < MaxTime
    /\ now' = now + 1
    /\ UNCHANGED <<sessions, uuid_count, watsonx_token, calls, frame>>

\* Session ids a caller can pass: anything foreign, or an id the store issued.
CallerIds == ForeignIds \cup DOMAIN sessions

\* One thread inside chat
Step(p) ==
    \/ \E session_id \in CallerIds : Chat(p, UserTexts[calls + 1], session_id)
    \/ AppendUser(p)
    \/ \E outcome \in AssistantOutcomes : Classify(p, outcome)
    \/ \E outcome \in GenOutcomes : ModelRequest(p, outcome)
    \/ \E outcome \in IamOutcomes : RefreshToken(p, outcome)
    \/ \E outcome \in GenOutcomes : ModelRetry(p, outcome)
    \/ FinishModel(p)
    \/ UseAssistant(p)
    \/ Fallback(p)

\* Invocations one after the other (the single caller-per-request model)
Next ==
    \/ Tick
    \/ Step(Main)

Spec == Init /\ [][Next]_vars

\* The session store alone: resolves one after the other, and time
NextStore ==
    \/ Tick
    \/ \E session_id \in CallerIds : Resolve(Main, session_id)

SpecStore == Init /\ [][NextStore]_vars

\* Mutant: the entry point hands chat a session id the caller kept
Mutant_chat_with_bot_Continues(p, message) ==
    \E session_id \in CallerIds : Chat(p, message, session_id)

\* chat_with_bot(message): bot.chat(message) on the cached bot, no session id
chat_with_bot(p, message) == Chat(p, message, None)

\* One thread inside a call of the entry point
StepEntry(p) ==
    \/ chat_with_bot(p, UserTexts[calls + 1])
    \/ AppendUser(p)
    \/ \E outcome \in AssistantOutcomes : Classify(p, outcome)
    \/ \E outcome \in GenOutcomes : ModelRequest(p, outcome)
    \/ \E outcome \in IamOutcomes : RefreshToken(p, outcome)
    \/ \E outcome \in GenOutcomes : ModelRetry(p, outcome)
    \/ FinishModel(p)
    \/ UseAssistant(p)
    \/ Fallback(p)

\* The presentation layer: one message after the other through chat_with_bot
NextEntry ==
    \/ Tick
    \/ StepEntry(Main)

SpecEntry == Init /\ [][NextEntry]_vars

\* Upstream answers drawn while threads interleave: one answer per branch of
\* chat (classification failed, gave a text, no 'output', or an 'output'
\* without text)
\* and of get_model_response (text, 401, no answer; token exchange made or not).
ConcAssistantOutcomes ==
    {o \in AssistantOutcomes :
        \/ o.kind = "exception"
        \/ o.kind = "http" /\ o.status = 200 /\ ~o.body.marker
              /\ o.body.output \in {"text", "absent", "empty_generic"}}

ConcGenOutcomes ==
    {o \in GenOutcomes :
        \/ o.kind = "exception"
        \/ o.status = 401
        \/ o.status = 200 /\ o.wellformed /\ o.text = <<"x">>}

ConcIamOutcomes == {o \in IamOutcomes : o.kind = "exception" \/ (o.status = 200 /\ o.wellformed)}

\* Session ids the concurrent callers pass: none, or an id the store issued.
ConcCallerIds == {None} \cup DOMAIN sessions

\* One thread inside chat, while other threads are inside chat too
StepConc(p) ==
    \/ \E session_id \in ConcCallerIds : Chat(p, UserTexts[calls + 1], session_id)
    \/ AppendUser(p)
    \/ \E outcome \in ConcAssistantOutcomes : Classify(p, outcome)
    \/ \E outcome \in ConcGenOutcomes : ModelRequest(p, outcome)
    \/ \E outcome \in ConcIamOutcomes : RefreshToken(p, outcome)
    \/ \E outcome \in ConcGenOutcomes : ModelRetry(p, outcome)
    \/ FinishModel(p)
    \/ UseAssistant(p)
    \/ Fallback(p)

\* Several threads run chat on the one shared bot, their steps interleaved
NextConc ==
    \/ Tick
    \/ \E p \in Procs : StepConc(p)

SpecConc == Init /\ [][NextConc]_vars

(* ----------------------- vocabulary of the claims ----------------------- *)

\* The invocation of thread p is over (chat returned or raised).
Ended(p) == frame[p].pc \in {"returned", "raised"}

Returned(p) == frame[p].pc = "returned"

\* The stored history of the session the invocation of p resolved to
HistoryOf(p) == sessions[frame[p].session_id].conversation_history

\* The two turns a complete invocation leaves: the user's text, then the reply
TurnsOf(p) ==
    <<Turn("user", frame[p].user_input), Turn("assistant", frame[p].result.response)>>

\* A history that ends with a user turn nobody answered
Dangling(h) == h # << >> /\ h[Len(h)].role = "user"

(* ------------------------------- claims -------------------------------- *)

\* C1 (as stated): every call of a chain (the first passes no known id, each
\* later one passes the id the previous call returned, less than the timeout
\* after it) returns the chain's session id and extends that session's history
\* by the user turn and the assistant turn holding the returned response, so
\* that the n-th call of the chain leaves a history of length 2n.
C1_ChainedCallsExtendByTwo ==
    \A p \in Procs :
        (Ended(p) /\ frame[p].chain > 0) =>
            /\ Returned(p)
            /\ frame[p].chain > 1 => frame[p].result.session_id = frame[p].arg
            /\ HistoryOf(p) = frame[p].hist0 \o TurnsOf(p)
            /\ Len(HistoryOf(p)) = 2 * frame[p].chain

\* Scope of the C1 divergence: the chain property holds of every call that returns.
L1_ReturnedChainedCallsExtendByTwo ==
    \A p \in Procs :
        (Returned(p) /\ frame[p].chain > 0) =>
            /\ frame[p].chain > 1 => frame[p].result.session_id = frame[p].arg
            /\ HistoryOf(p) = frame[p].hist0 \o TurnsOf(p)
            /\ Len(HistoryOf(p)) = 2 * frame[p].chain

\* C2 (as stated): once an invocation has ended, it has appended exactly one
\* user turn and one assistant turn to its session, and no session's history
\* ends with an unanswered user turn.
C2_OneUserOneAssistantTurn ==
    \A p \in Procs :
        Ended(p) =>
            /\ Len(HistoryOf(p)) = Len(frame[p].hist0) + 2
            /\ HistoryOf(p)[Len(frame[p].hist0) + 1].role = "user"
            /\ HistoryOf(p)[Len(frame[p].hist0) + 2].role = "assistant"
            /\ \A id \in DOMAIN sessions : ~Dangling(sessions[id].conversation_history)

\* C3 (as stated): no invocation of chat ends in a raised error.
C3_ChatNeverRaises == \A p \in Procs : frame[p].pc # "raised"

\* C4 (as stated): a call whose session_id is omitted, unknown or names a
\* session last accessed at least the timeout ago returns a new id, different
\* from the input and from every id the store held, whose session started
\* empty and holds 2 turns after the call.
C4_FreshSessionForStaleOrUnknownId ==
    \A p \in Procs :
        (Ended(p) /\ ~frame[p].live0) =>
            /\ Returned(p)
            /\ frame[p].result.session_id # frame[p].arg
            /\ frame[p].result.session_id \notin frame[p].store0
            /\ frame[p].result.session_id \in DOMAIN sessions
            /\ frame[p].hist0 = << >>
            /\ Len(sessions[frame[p].result.session_id].conversation_history) = 2

\* Scope of the C4 divergence: the resolve itself always yields a new, empty
\* session under a new id; only the length after a raising call differs.
L4_ResolveOfStaleOrUnknownIdIsFresh ==
    \A p \in Procs :
        (frame[p].pc # "idle" /\ ~frame[p].live0) =>
            /\ frame[p].session_id # frame[p].arg
            /\ frame[p].session_id \notin frame[p].store0
            /\ frame[p].hist0 = << >>
            /\ Returned(p) => /\ frame[p].result.session_id = frame[p].session_id
                              /\ Len(HistoryOf(p)) = 2

\* C5: resolving an id that names a live session returns that id, creates no
\* session, and changes nothing in the store but that session's last_accessed,
\* which becomes the current time (history and created_at stay as they were).
C5_LiveResolveOnlyRefreshes ==
    [][\A p \in Procs :
          (~InChat(p) /\ frame'[p].pc = "append_user"
                /\ LiveAt(sessions, frame'[p].arg, now)) =>
              /\ frame'[p].session_id = frame'[p].arg
              /\ DOMAIN sessions' = DOMAIN sessions
              /\ uuid_count' = uuid_count
              /\ sessions' = [sessions EXCEPT ![frame'[p].arg].last_accessed = now]]_vars

\* C5 witness: a live session with history has just been resolved, later than
\* it was created; its last_accessed is the current time.
C5_Witness ==
    \E p \in Procs :
        /\ frame[p].pc = "append_user"
        /\ frame[p].live0
        /\ frame[p].session_id = frame[p].arg
        /\ Len(HistoryOf(p)) = 2
        /\ sessions[frame[p].arg].created_at < now
        /\ sessions[frame[p].arg].last_accessed = now

\* C6: in get_model_response, a 401 followed by a 200 on the re-issued request
\* means exactly one refresh, exactly two requests, and the re-issued answer's
\* generated text (as the adapter returns text: stripped) is the result; a 401
\* followed by a 401 means the result is None, at most one refresh, no third
\* request, and chat returns the fallback.
C6_AuthRetryBoundary ==
    \A p \in Procs :
        LET f == frame[p]
        IN (f.pc \in {"gen_done", "returned"} /\ f.resp1.kind = "http" /\ f.resp1.status = 401
                /\ f.resp2.kind = "http") =>
              /\ f.resp2.status = 200 =>
                    /\ f.refreshes = 1
                    /\ f.gen_requests = 2
                    /\ f.resp2.wellformed => f.model_response = SomeText(Strip(f.resp2.text))
              /\ f.resp2.status = 401 =>
                    /\ f.model_response = NoText
                    /\ f.refreshes <= 1
                    /\ f.gen_requests = 2
                    /\ Returned(p) => /\ f.result.response = fallback
                                      /\ f.result.source = "fallback"

\* C6 witness: 401, one refresh, then a 200 whose padded text came back stripped
\* as the response.
C6_Witness ==
    \E p \in Procs :
        /\ Returned(p)
        /\ frame[p].resp1.status = 401
        /\ frame[p].resp2.status = 200
        /\ frame[p].resp2.text = <<" ", "x", " ">>
        /\ frame[p].result.response = <<"x">>
        /\ frame[p].refreshes = 1
        /\ watsonx_token = frame[p].token0 + 1

\* C7: when the classification result carries the marker, get_model_response is
\* entered exactly once, chat returns, and the response is never the
\* classification's text, whether generation succeeds or fails.
C7_MarkerForcesGeneration ==
    \A p \in Procs :
        LET f == frame[p]
        IN (Ended(p) /\ f.assistant_response.marker) =>
              /\ Returned(p)
              /\ f.gen_calls = 1
              /\ f.result.source # "assistant"
              /\ f.assistant_response.output = "text" =>
                    f.result.response # f.assistant_response.text

\* C7 witness: marker next to a direct text, generation failed, the apology
\* (not the classification's text) was returned.
C7_Witness ==
    \E p \in Procs :
        /\ Returned(p)
        /\ frame[p].assistant_response.marker
        /\ frame[p].assistant_response.output = "text"
        /\ frame[p].gen_calls = 1
        /\ frame[p].model_response = NoText
        /\ frame[p].result.response = fallback

\* C8 (as stated): a successful classification without marker and without an
\* 'output' field sends chat down the generation path: get_model_response is
\* entered, and the apology is returned only if it gave nothing.
C8_UnusableClassificationGenerates ==
    \A p \in Procs :
        LET f == frame[p]
        IN (Ended(p) /\ ~f.assistant_response.marker
                /\ f.assistant_response.output \in {"absent", "empty_dict"}) =>
              /\ f.gen_calls = 1
              /\ f.result.response = fallback => ~TruthyText(f.model_response)

\* C9: a classification with a direct text and without the marker makes chat
\* return that text, without entering get_model_response (no request, no
\* refresh), and the history grows by exactly the two turns.
C9_DirectReplyIsReturned ==
    \A p \in Procs :
        LET f == frame[p]
        IN (Ended(p) /\ ~f.assistant_response.marker /\ f.assistant_response.output = "text") =>
              /\ Returned(p)
              /\ f.result.response = f.assistant_response.text
              /\ f.gen_calls = 0 /\ f.gen_requests = 0 /\ f.refreshes = 0
              /\ HistoryOf(p) = f.hist0 \o TurnsOf(p)
              /\ Len(HistoryOf(p)) = Len(f.hist0) + 2

\* C9 witness: a live session with earlier turns got the classification's text.
C9_Witness ==
    \E p \in Procs :
        /\ Returned(p)
        /\ ~frame[p].assistant_response.marker
        /\ frame[p].assistant_response.output = "text"
        /\ frame[p].live0
        /\ Len(frame[p].hist0) = 2
        /\ Len(HistoryOf(p)) = 4
        /\ HistoryOf(p)[4].content = frame[p].assistant_response.text

\* C10: when the classification call fails and the generation request cannot
\* reach its service, chat returns the apology with source "fallback" and the
\* history holds the user turn and the apology turn, on every call.
C10_BothUnreachableFallsBack ==
    \A p \in Procs :
        LET f == frame[p]
        IN (Ended(p) /\ f.assistant_response = NoneBody /\ f.resp1.kind = "exception") =>
              /\ Returned(p)
              /\ f.result.response = fallback
              /\ f.result.source = "fallback"
              /\ HistoryOf(p) =
                    f.hist0 \o <<Turn("user", f.user_input), Turn("assistant", fallback)>>

\* C10 witness: the second of two such calls on one session; both apologies
\* are in the history.
C10_Witness ==
    \E p \in Procs :
        /\ Returned(p)
        /\ frame[p].assistant_response = NoneBody
        /\ frame[p].resp1.kind = "exception"
        /\ frame[p].chain = 2
        /\ Len(HistoryOf(p)) = 4
        /\ HistoryOf(p)[2].content = fallback
        /\ HistoryOf(p)[4].content = fallback

\* The last answer get_model_response received from the generation service
FinalAnswer(p) == IF frame[p].resp2 # NoOutcome THEN frame[p].resp2 ELSE frame[p].resp1

\* The adapter obtained text: a well-formed 200 on the first or the re-issued request
ObtainedText(p) ==
    /\ FinalAnswer(p).kind = "http"
    /\ FinalAnswer(p).status = 200
    /\ FinalAnswer(p).wellformed

LastTurn(p) == HistoryOf(p)[Len(HistoryOf(p))]

\* C11 (as stated): whenever the adapter obtained text, that text (stripped) is
\* the returned response and the appended assistant turn, the empty text
\* included.
C11_GeneratedTextIsAlwaysTheReply ==
    \A p \in Procs :
        (Ended(p) /\ ObtainedText(p)) =>
            /\ frame[p].result.response = Strip(FinalAnswer(p).text)
            /\ LastTurn(p) = Turn("assistant", Strip(FinalAnswer(p).text))

\* C11 (amended): text that is non-empty after stripping is the returned
\* response and the appended assistant turn; when the adapter gave None or text
\* that is empty after stripping, the response and the appended turn are the
\* apology.
C11_NonEmptyGeneratedTextIsTheReply ==
    \A p \in Procs :
        (Ended(p) /\ frame[p].gen_calls = 1) =>
            LET text == Strip(FinalAnswer(p).text)
                reply == IF ObtainedText(p) /\ text # << >> THEN text ELSE fallback
            IN /\ Returned(p)
               /\ frame[p].result.response = reply
               /\ LastTurn(p) = Turn("assistant", reply)
               /\ frame[p].result.response = fallback <=> ~(ObtainedText(p) /\ text # << >>)

\* C11 witness: the service answered 200 with blank text and the apology was
\* returned and appended.
C11_Witness ==
    \E p \in Procs :
        /\ Returned(p)
        /\ ObtainedText(p)
        /\ FinalAnswer(p).text = <<" ">>
        /\ frame[p].model_response = SomeText(<< >>)
        /\ frame[p].result.response = fallback
        /\ LastTurn(p).content = fallback

\* The path that produced the response of a returned invocation
PathOf(p) ==
    IF frame[p].gen_calls = 0 /\ frame[p].assistant_response.output = "text" THEN "classification"
    ELSE IF frame[p].gen_calls = 1 /\ ObtainedText(p) /\ Strip(FinalAnswer(p).text) # << >>
         THEN "generation"
    ELSE "fallback"

First401(p) == frame[p].resp1.kind = "http" /\ frame[p].resp1.status = 401

\* C13: a token refresh and a second request happen only after a 401 on the
\* first request of the same invocation; after any other non-200 status or a
\* network exception there is no refresh, no second request, the token is the
\* one the invocation found and the result is None; the token never changes
\* at any other moment.
C13_RefreshOnlyAfter401 ==
    /\ (\A p \in Procs : frame[p].pc = "idle") => watsonx_token = 0
    /\ \A p \in Procs :
        LET f == frame[p]
        IN f.pc # "idle" =>
           /\ watsonx_token \in {f.token0, f.token0 + 1}
           /\ (watsonx_token # f.token0 \/ f.refreshes > 0 \/ f.gen_requests > 1
                   \/ f.resp2 # NoOutcome \/ f.iam # NoIam) => First401(p)
           /\ (f.resp1.kind # "none" /\ ~First401(p)) =>
                 /\ f.refreshes = 0
                 /\ f.gen_requests = 1
                 /\ watsonx_token = f.token0
                 /\ f.resp1.status # 200 => f.model_response = NoText

\* C13 witness: the first request was answered 500; chat returned the apology
\* after one request and no refresh.
C13_Witness ==
    \E p \in Procs :
        /\ Returned(p)
        /\ frame[p].resp1.status = 500
        /\ frame[p].gen_requests = 1
        /\ frame[p].refreshes = 0
        /\ frame[p].result.response = fallback

\* The token exchange of the invocation was made and gave no token.
ExchangeFailed(p) ==
    /\ frame[p].iam.kind # "none"
    /\ ~(frame[p].iam.kind = "http" /\ frame[p].iam.status = 200 /\ frame[p].iam.wellformed)

\* C14: a failed token exchange does not leave chat: no re-issued request, the
\* token keeps its value, get_model_response gives None, and the invocation
\* ends with the apology and both turns appended.
C14_FailedExchangeFallsBack ==
    \A p \in Procs :
        LET f == frame[p]
        IN ExchangeFailed(p) =>
              /\ f.pc \in {"gen_done", "returned"}
              /\ f.gen_requests = 1
              /\ f.resp2 = NoOutcome
              /\ watsonx_token = f.token0
              /\ f.model_response = NoText
              /\ Returned(p) =>
                    /\ f.result.response = fallback
                    /\ HistoryOf(p) =
                          f.hist0 \o <<Turn("user", f.user_input), Turn("assistant", fallback)>>

\* C14 witness: the identity endpoint answered 400 and chat returned the apology.
C14_Witness ==
    \E p \in Procs :
        /\ Returned(p)
        /\ frame[p].iam.status = 400
        /\ frame[p].result.response = fallback
        /\ Len(HistoryOf(p)) = Len(frame[p].hist0) + 2
        /\ watsonx_token = frame[p].token0

\* The history get_model_response is handed by the invocation of p: what the
\* session held when it was resolved, then the current user turn
HandedHistory(p) == frame[p].hist0 \o <<Turn("user", frame[p].user_input)>>

\* C15 (as stated): the user turn is in the history before the classification
\* call; the history handed to get_model_response ends with the current user
\* turn and holds no reply of this invocation; the prompt's context is its last
\* 2 turns: the previous assistant turn and the current user turn when the
\* session has prior history, the current user turn alone in a fresh session.
C15_PromptWindowIsAssistantThenUser ==
    \A p \in Procs :
        LET f == frame[p]
        IN /\ f.pc \in {"classify", "gen_req1", "gen_refresh", "gen_req2", "gen_done",
                        "use_assistant", "fallback"} => HistoryOf(p) = HandedHistory(p)
           /\ f.gen_calls = 1 =>
                 /\ f.prompt_ctx = PromptContext(HandedHistory(p))
                 /\ f.prompt_ctx[Len(f.prompt_ctx)] = Turn("user", f.user_input)
                 /\ f.hist0 = << >> => f.prompt_ctx = <<Turn("user", f.user_input)>>
                 /\ f.hist0 # << >> =>
                       /\ Len(f.prompt_ctx) = 2
                       /\ f.prompt_ctx[1] = f.hist0[Len(f.hist0)]
                       /\ f.prompt_ctx[1].role = "assistant"

\* Scope of the C15 divergence: the ordering and the 2-turn window hold; only
\* the role of the turn before the current one differs, after a call that raised.
L15_PromptWindowIsLastTwoTurns ==
    \A p \in Procs :
        LET f == frame[p]
        IN /\ f.pc \in {"classify", "gen_req1", "gen_refresh", "gen_req2", "gen_done",
                        "use_assistant", "fallback"} => HistoryOf(p) = HandedHistory(p)
           /\ f.gen_calls = 1 =>
                 /\ f.prompt_ctx = PromptContext(HandedHistory(p))
                 /\ f.prompt_ctx[Len(f.prompt_ctx)] = Turn("user", f.user_input)
                 /\ f.hist0 = << >> => f.prompt_ctx = <<Turn("user", f.user_input)>>
                 /\ f.hist0 # << >> =>
                       /\ Len(f.prompt_ctx) = 2
                       /\ f.prompt_ctx[1] = f.hist0[Len(f.hist0)]
                       /\ f.prompt_ctx[1].role = "assistant" \/ Dangling(f.hist0)

IsPrefix(h1, h2) == Len(h1) <= Len(h2) /\ SubSeq(h2, 1, Len(h1)) = h1

\* C16: a session's stored history is append-only: every step keeps every
\* session and leaves its earlier history as a prefix of its later history
\* (so, by induction, an earlier history is a prefix of every later one);
\* building the prompt window does not shorten it.
C16_HistoryIsAppendOnly ==
    [][\A id \in DOMAIN sessions :
          /\ id \in DOMAIN sessions'
          /\ IsPrefix(sessions[id].conversation_history, sessions'[id].conversation_history)]_vars

\* C16 witness: get_model_response has built a 2-turn window from a stored
\* history of 3 turns, which is still whole.
C16_Witness ==
    \E p \in Procs :
        /\ frame[p].pc = "gen_done"
        /\ Len(frame[p].prompt_ctx) = 2
        /\ Len(HistoryOf(p)) = 3
        /\ HistoryOf(p) = HandedHistory(p)

\* The step is a session resolve made by thread p (inside chat or on its own).
ResolveStep(p) == calls' = calls + 1 /\ frame'[p].no = calls'

\* C17: a resolve of a known id finds the session live iff now minus its
\* last_accessed is strictly less than the timeout: at exactly the timeout it
\* yields a new session, below it the same session, whatever created_at is.
C17_LiveIffLastAccessWithinTimeout ==
    [][\A p \in Procs :
          (ResolveStep(p) /\ frame'[p].arg \in DOMAIN sessions) =>
              LET sid == frame'[p].arg
                  same == frame'[p].session_id = sid /\ DOMAIN sessions' = DOMAIN sessions
                  fresh == /\ frame'[p].session_id \notin DOMAIN sessions
                           /\ sessions'[frame'[p].session_id].conversation_history = << >>
              IN /\ same <=> now - sessions[sid].last_accessed < session_timeout
                 /\ fresh <=> now - sessions[sid].last_accessed >= session_timeout]_vars

\* C17 witness: a session created at least the timeout ago has just been
\* resolved as the same session, because its last access was more recent.
C17_Witness ==
    \E p \in Procs :
        /\ frame[p].pc = "resolved"
        /\ frame[p].arg \in frame[p].store0
        /\ frame[p].session_id = frame[p].arg
        /\ frame[p].t0 = now
        /\ now - sessions[frame[p].arg].created_at >= session_timeout

\* A resolve at exactly the timeout has just yielded a new session.
L17_ResolvedAtExactlyTheTimeout ==
    \E p \in Procs :
        /\ frame[p].pc = "resolved"
        /\ frame[p].arg \in frame[p].store0
        /\ frame[p].session_id # frame[p].arg
        /\ frame[p].t0 = now
        /\ now - sessions[frame[p].arg].last_accessed = session_timeout

\* C18 (as stated): a resolve given the id of an expired session removes that
\* session from the store.
C18_ExpiredSessionIsEvicted ==
    \A p \in Procs :
        (frame[p].no > 0 /\ frame[p].arg \in frame[p].store0 /\ ~frame[p].live0) =>
            frame[p].arg \notin DOMAIN sessions

\* C18 (amended): a resolve given the id of an expired session creates the
\* replacement under a new id and leaves the expired session in the store,
\* unchanged; the store grows by one entry.
C18_ExpiredSessionIsKept ==
    [][\A p \in Procs :
          (ResolveStep(p) /\ frame'[p].arg \in DOMAIN sessions
                /\ now - sessions[frame'[p].arg].last_accessed >= session_timeout) =>
              /\ frame'[p].arg \in DOMAIN sessions'
              /\ sessions'[frame'[p].arg] = sessions[frame'[p].arg]
              /\ frame'[p].session_id \notin DOMAIN sessions
              /\ DOMAIN sessions' = DOMAIN sessions \cup {frame'[p].session_id}]_vars

\* C18 witness: after the resolve of an expired id the store holds both the
\* expired session and its replacement.
C18_Witness ==
    \E p \in Procs :
        /\ frame[p].pc = "resolved"
        /\ frame[p].arg \in frame[p].store0
        /\ ~frame[p].live0
        /\ frame[p].session_id # frame[p].arg
        /\ {frame[p].arg, frame[p].session_id} \subseteq DOMAIN sessions

\* Every thread that entered chat made one invocation, and all have returned.
AllReturnedOnce ==
    /\ \A p \in Procs : frame[p].pc \in {"idle", "returned"}
    /\ calls = Cardinality({p \in Procs : frame[p].pc = "returned"})
    /\ calls > 0

\* The invocations that resolved to the session stored under id
InvocationsOf(id) == {p \in Procs : frame[p].pc # "idle" /\ frame[p].session_id = id}

\* How often turn x occurs in history h
Count(h, x) == Cardinality({i \in 1..Len(h) : h[i] = x})

\* How often turn x is the user turn or the assistant turn of an invocation on id
Expected(id, x) ==
    Cardinality({p \in InvocationsOf(id) : TurnsOf(p)[1] = x})
        + Cardinality({p \in InvocationsOf(id) : TurnsOf(p)[2] = x})

\* C19: with the steps of several invocations interleaved, once all of them
\* have returned every session's history holds exactly the user turn and the
\* assistant turn of each invocation that resolved to it (2 turns each, the
\* user turn before the assistant turn), and invocations that passed no
\* session_id hold pairwise distinct session ids.
C19_NoLostUpdate ==
    AllReturnedOnce =>
        /\ \A id \in DOMAIN sessions :
              LET h == sessions[id].conversation_history
              IN /\ Len(h) = 2 * Cardinality(InvocationsOf(id))
                 /\ \A i \in 1..Len(h) : Count(h, h[i]) = Expected(id, h[i])
                 /\ \A p \in InvocationsOf(id) :
                       \E i, j \in 1..Len(h) :
                           i < j /\ h[i] = TurnsOf(p)[1] /\ h[j] = TurnsOf(p)[2]
        /\ \A p \in Procs : Returned(p) => frame[p].result.session_id = frame[p].session_id
        /\ \A p, q \in Procs :
              (p # q /\ Returned(p) /\ Returned(q)
                    /\ frame[p].arg = None /\ frame[q].arg = None) =>
                  frame[p].result.session_id # frame[q].result.session_id

\* C19 witness: two invocations ran interleaved on the same live session (both
\* user turns were appended before either reply) and both have returned.
C19_Witness ==
    /\ AllReturnedOnce
    /\ \E p, q \in Procs :
          /\ p # q
          /\ Returned(p) /\ Returned(q)
          /\ frame[p].session_id = frame[q].session_id
          /\ Len(HistoryOf(p)) = 4
          /\ HistoryOf(p)[1].role = "user"
          /\ HistoryOf(p)[2].role = "user"

\* Two interleaved invocations that passed no session_id have returned.
L19_TwoNewSessionsInterleaved ==
    \E p, q \in Procs :
        /\ p # q
        /\ Returned(p) /\ Returned(q)
        /\ frame[p].arg = None /\ frame[q].arg = None
        /\ frame[q].no = frame[p].no + 1
        /\ frame[q].store0 = {frame[p].session_id}
        /\ sessions[frame[p].session_id].conversation_history[1] = TurnsOf(p)[1]
        /\ frame[q].t0 = frame[p].t0

\* C20: through chat_with_bot no session is ever continued: every call
\* resolves to a new, empty session under an id the store did not hold (so the
\* returned id differs from every id returned before), the store holds one
\* session per call made, no history exceeds 2 turns, and the prompt context of
\* a generation request is the current user turn alone.
C20_EntryPointNeverContinues ==
    /\ Cardinality(DOMAIN sessions) = calls
    /\ \A id \in DOMAIN sessions : Len(sessions[id].conversation_history) <= 2
    /\ \A p \in Procs :
          LET f == frame[p]
          IN /\ f.pc # "idle" =>
                   /\ f.arg = None
                   /\ ~f.live0
                   /\ f.session_id \notin f.store0
                   /\ f.session_id \in DOMAIN sessions
                   /\ f.hist0 = << >>
                   /\ Cardinality(f.store0) = f.no - 1
             /\ Returned(p) => f.result.session_id = f.session_id
             /\ f.gen_requests > 0 => f.prompt_ctx = <<Turn("user", f.user_input)>>

\* C20 witness: the second call, made right after the first, went through the
\* generation service and returned under a second id; the store holds two
\* sessions of 2 turns each.
C20_Witness ==
    \E p \in Procs :
        /\ Returned(p)
        /\ frame[p].no = 2
        /\ frame[p].gen_requests > 0
        /\ frame[p].result.source = "model"
        /\ Cardinality(frame[p].store0) = 1
        /\ frame[p].result.session_id \notin frame[p].store0
        /\ \A id \in frame[p].store0 :
              /\ Len(sessions[id].conversation_history) = 2
              /\ sessions[id].last_accessed = frame[p].t0
        /\ Len(HistoryOf(p)) = 2

====
